---- MODULE Spec2Model ----
(***************************************************************************)
(* The CHIP-8 machine of chip8_core (struct Emu and its methods) and the   *)
(* calls the desktop front end makes on it.  One variable per field of     *)
(* Emu; `panic` is the state of the hosting process ("none" while it       *)
(* runs, otherwise the kind of Rust panic that ended it).                  *)
(***************************************************************************)
EXTENDS Integers, Sequences, FiniteSets, TLC

VARIABLES pc, ram, screen, v_reg, i_reg, sp, stack, keys, dt, st,
          panic, overflow_checks, last, prev, calls, frames

vars == <<pc, ram, screen, v_reg, i_reg, sp, stack, keys, dt, st,
          panic, overflow_checks, last, prev, calls, frames>>

-----------------------------------------------------------------------------
(* Program constants. *)

SCREEN_WIDTH == 64

SCREEN_HEIGHT == 32

RAM_SIZE == 4096

NUM_REGS == 16

STACK_SIZE == 16

START_ADDR == 512

FONTSET_SIZE == 80

NUM_KEYS == 16

FONTSET ==
  << 240, 144, 144, 144, 240,
      32,  96,  32,  32, 112,
     240,  16, 240, 128, 240,
     240,  16, 240,  16, 240,
     144, 144, 240,  16,  16,
     240, 128, 240,  16, 240,
     240, 128, 240, 144, 240,
     240,  16,  32,  64,  64,
     240, 144, 240, 144, 240,
     240, 144, 240,  16, 240,
     240, 144, 240, 144, 144,
     224, 144, 224, 144, 224,
     240, 128, 128, 128, 240,
     224, 144, 144, 144, 224,
     240, 128, 240, 128, 240,
     240, 128, 240, 128, 128 >>

TICK_PER_FRAME == 10

(* Widths of the Rust integer types used by Emu. *)
U8 == 256

U16 == 65536

-----------------------------------------------------------------------------
(* Bit operations on naturals, as Rust's &, |, ^, << and >> compute them. *)

RECURSIVE BitAnd(_, _)
BitAnd(a, b) ==
  IF a = 0 \/ b = 0 THEN 0
  ELSE (a % 2) * (b % 2) + 2 * BitAnd(a \div 2, b \div 2)

RECURSIVE BitOr(_, _)
BitOr(a, b) ==
  IF a = 0 THEN b
  ELSE IF b = 0 THEN a
  ELSE (IF a % 2 = 1 \/ b % 2 = 1 THEN 1 ELSE 0) + 2 * BitOr(a \div 2, b \div 2)

RECURSIVE BitXor(_, _)
BitXor(a, b) ==
  IF a = 0 THEN b
  ELSE IF b = 0 THEN a
  ELSE ((a + b) % 2) + 2 * BitXor(a \div 2, b \div 2)

RECURSIVE Pow2(_)
Pow2(n) == IF n = 0 THEN 1 ELSE 2 * Pow2(n - 1)

Shr(a, n) == a \div Pow2(n)

(* A left shift of a value of the given width drops the bits shifted out. *)
Shl(a, n, width) == (a * Pow2(n)) % width

-----------------------------------------------------------------------------
(* The machine as a record: the fields of Emu plus the process's panic.   *)

Self ==
  [pc |-> pc, ram |-> ram, screen |-> screen, v_reg |-> v_reg,
   i_reg |-> i_reg, sp |-> sp, stack |-> stack, keys |-> keys,
   dt |-> dt, st |-> st, panic |-> panic]

Store(e) ==
  /\ pc' = e.pc
  /\ ram' = e.ram
  /\ screen' = e.screen
  /\ v_reg' = e.v_reg
  /\ i_reg' = e.i_reg
  /\ sp' = e.sp
  /\ stack' = e.stack
  /\ keys' = e.keys
  /\ dt' = e.dt
  /\ st' = e.st
  /\ panic' = e.panic

(* The one element of a singleton set.  {F(v) : v \in {expr}} computes expr *)
(* once and names its value v, as a `let` of the source does.              *)
Force(S) == CHOOSE r \in S : TRUE

(* A panic leaves the fields as they are at the panicking statement. *)
Panic(e, kind) == [e EXCEPT !.panic = kind]

(* ram[..FONTSET_SIZE].copy_from_slice(&FONTSET) *)
CopyFontset(mem) == [a \in 0..(FONTSET_SIZE - 1) |-> FONTSET[a + 1]] @@ mem

new ==
  [pc |-> START_ADDR,
   ram |-> CopyFontset([a \in 0..(RAM_SIZE - 1) |-> 0]),
   screen |-> [p \in 0..(SCREEN_WIDTH * SCREEN_HEIGHT - 1) |-> FALSE],
   v_reg |-> [r \in 0..(NUM_REGS - 1) |-> 0],
   i_reg |-> 0,
   sp |-> 0,
   stack |-> [s \in 0..(STACK_SIZE - 1) |-> 0],
   keys |-> [k \in 0..(NUM_KEYS - 1) |-> FALSE],
   dt |-> 0,
   st |-> 0,
   panic |-> "none"]

(* reset() without its last statement, the copy of FONTSET into the ram. *)
reset_without_fontset(e) ==
  [e EXCEPT !.pc = START_ADDR,
            !.ram = [a \in 0..(RAM_SIZE - 1) |-> 0],
            !.screen = [p \in 0..(SCREEN_WIDTH * SCREEN_HEIGHT - 1) |-> FALSE],
            !.v_reg = [r \in 0..(NUM_REGS - 1) |-> 0],
            !.i_reg = 0,
            !.sp = 0,
            !.stack = [s \in 0..(STACK_SIZE - 1) |-> 0],
            !.dt = 0,
            !.st = 0]

(* reset() assigns every field of Emu except keys. *)
reset(e) ==
  [e EXCEPT !.pc = START_ADDR,
            !.ram = CopyFontset([a \in 0..(RAM_SIZE - 1) |-> 0]),
            !.screen = [p \in 0..(SCREEN_WIDTH * SCREEN_HEIGHT - 1) |-> FALSE],
            !.v_reg = [r \in 0..(NUM_REGS - 1) |-> 0],
            !.i_reg = 0,
            !.sp = 0,
            !.stack = [s \in 0..(STACK_SIZE - 1) |-> 0],
            !.dt = 0,
            !.st = 0]

(* push: the write to stack[sp] is bounds-checked before sp is advanced. *)
push(e, val) ==
  IF e.sp >= STACK_SIZE THEN Panic(e, "index")
  ELSE [e EXCEPT !.stack = [@ EXCEPT ![e.sp] = val], !.sp = e.sp + 1]

(* A pop that takes the oldest entry of the stack, not the latest. *)
pop_first(e) ==
  IF e.sp = 0
  THEN IF overflow_checks
       THEN <<Panic(e, "overflow"), 0>>
       ELSE <<Panic([e EXCEPT !.sp = U16 - 1], "index"), 0>>
  ELSE LET s == [e EXCEPT !.sp = e.sp - 1]
       IN IF s.sp >= STACK_SIZE THEN <<Panic(s, "index"), 0>>
          ELSE <<s, s.stack[0]>>

(* pop: sp -= 1 on a u16.  At sp = 0 a build with overflow checks panics   *)
(* at the subtraction; a build without them wraps sp to 65535 and panics   *)
(* at the read of stack[65535].  The result is <<machine, popped value>>.  *)
pop(e) ==
  IF e.sp = 0
  THEN IF overflow_checks
       THEN <<Panic(e, "overflow"), 0>>
       ELSE <<Panic([e EXCEPT !.sp = U16 - 1], "index"), 0>>
  ELSE LET s == [e EXCEPT !.sp = e.sp - 1]
       IN IF s.sp >= STACK_SIZE THEN <<Panic(s, "index"), 0>>
          ELSE <<s, s.stack[s.sp]>>

(* tick_timers without the tests for zero: a u8 decrement that wraps. *)
tick_timers_unguarded(e) ==
  [e EXCEPT !.dt = (e.dt - 1) % U8, !.st = (e.st - 1) % U8]

(* tick_timers *)
tick_timers(e) ==
  LET e1 == IF e.dt > 0 THEN [e EXCEPT !.dt = e.dt - 1] ELSE e
  IN IF e1.st > 0 THEN [e1 EXCEPT !.st = e1.st - 1] ELSE e1

get_display(e) == e.screen

(* keypress: keys[index] = pressed, bounds-checked. *)
keypress(e, index, pressed) ==
  IF index >= NUM_KEYS THEN Panic(e, "index")
  ELSE [e EXCEPT !.keys = [@ EXCEPT ![index] = pressed]]

(* load: the range START_ADDR..START_ADDR+len is bounds-checked against    *)
(* the ram before any byte is copied; data is a sequence of bytes.         *)
load(e, data) ==
  LET start == START_ADDR
      end == START_ADDR + Len(data)
  IN IF end > RAM_SIZE THEN Panic(e, "index")
     ELSE [e EXCEPT !.ram = [a \in start..(end - 1) |-> data[a - start + 1]] @@ @]

-----------------------------------------------------------------------------
(* A fetch whose addresses wrap around the ram instead of failing. *)
fetch_wrapping(e) ==
  LET higher_byte == e.ram[e.pc % RAM_SIZE]
      lower_byte == e.ram[(e.pc + 1) % RAM_SIZE]
      op == BitOr(Shl(higher_byte, 8, U16), lower_byte)
  IN <<[e EXCEPT !.pc = (e.pc + 2) % RAM_SIZE], op>>

(* fetch: two bounds-checked reads of ram, then pc += 2.  The result is    *)
(* <<machine, op>>; on a panic pc has not been advanced.                   *)
fetch(e) ==
  IF e.pc >= RAM_SIZE THEN <<Panic(e, "index"), 0>>
  ELSE IF e.pc + 1 >= RAM_SIZE THEN <<Panic(e, "index"), 0>>
  ELSE LET higher_byte == e.ram[e.pc]
           lower_byte == e.ram[e.pc + 1]
           op == BitOr(Shl(higher_byte, 8, U16), lower_byte)
       IN <<[e EXCEPT !.pc = e.pc + 2], op>>

SetV(e, x, val) == [e EXCEPT !.v_reg = [@ EXCEPT ![x] = val]]

(* A skip: pc += 2 when the condition holds. *)
SkipIf(e, cond) == IF cond THEN [e EXCEPT !.pc = e.pc + 2] ELSE e

(* 8XY4 with the carry taken one too late (sum > 256). *)
Op8XY4_carry_late(e, x, y) ==
  LET sum == e.v_reg[x] + e.v_reg[y]
      new_vx == sum % U8
      carry == sum > U8
      new_vf == IF carry THEN 1 ELSE 0
  IN [e EXCEPT !.v_reg = [[@ EXCEPT ![x] = new_vx] EXCEPT ![15] = new_vf]]

(* 8XY4: overflowing_add; Vx is written first, VF last. *)
Op8XY4(e, x, y) ==
  LET sum == e.v_reg[x] + e.v_reg[y]
      new_vx == sum % U8
      carry == sum >= U8
      new_vf == IF carry THEN 1 ELSE 0
  IN SetV(SetV(e, x, new_vx), 15, new_vf)

(* 8XY5 with equal operands counted as a borrow. *)
Op8XY5_borrow_on_equal(e, x, y) ==
  LET diff == e.v_reg[x] - e.v_reg[y]
      new_vx == diff % U8
      borrow == diff <= 0
      new_vf == IF borrow THEN 0 ELSE 1
  IN [e EXCEPT !.v_reg = [[@ EXCEPT ![x] = new_vx] EXCEPT ![15] = new_vf]]

(* 8XY5: overflowing_sub; Vx is written first, VF last. *)
Op8XY5(e, x, y) ==
  LET diff == e.v_reg[x] - e.v_reg[y]
      new_vx == diff % U8
      borrow == diff < 0
      new_vf == IF borrow THEN 0 ELSE 1
  IN SetV(SetV(e, x, new_vx), 15, new_vf)

Op8XY6(e, x) ==
  LET lsb == BitAnd(e.v_reg[x], 1)
  IN SetV(SetV(e, x, Shr(e.v_reg[x], 1)), 15, lsb)

Op8XY7(e, x, y) ==
  LET diff == e.v_reg[y] - e.v_reg[x]
      new_vx == diff % U8
      borrow == diff < 0
      new_vf == IF borrow THEN 0 ELSE 1
  IN SetV(SetV(e, x, new_vx), 15, new_vf)

(* 8XYE with the two writes in the other order: VF first, Vx last. *)
Op8XYE_flag_first(e, x) ==
  LET msb == BitAnd(Shr(e.v_reg[x], 7), 1)
  IN SetV(SetV(e, 15, msb), x, Shl(e.v_reg[x], 1, U8))

Op8XYE(e, x) ==
  LET msb == BitAnd(Shr(e.v_reg[x], 7), 1)
  IN SetV(SetV(e, x, Shl(e.v_reg[x], 1, U8)), 15, msb)

(* DXYN.  Line 285 rebinds x_coord to the register of digit3, and the name *)
(* y_coord of line 301 is bound nowhere: both coordinates are read from    *)
(* the register of digit3, and both are reduced modulo SCREEN_WIDTH.  The  *)
(* loops run row by row and bit by bit; the reads of ram and the accesses  *)
(* to screen are bounds-checked, and a panic keeps the pixels drawn so far.*)
SpriteOrigin(e, digit2, digit3) ==
  LET x_coord == e.v_reg[digit3]
      y_coord == x_coord
  IN <<x_coord, y_coord>>

PixelCell(x_coord, y_coord, x_line, y_line) ==
  LET x == (x_coord + x_line) % SCREEN_WIDTH
      y == (y_coord + y_line) % SCREEN_WIDTH
  IN <<x, y>>

(* The draw keeps in acc the screen so far as the set of cells toggled an  *)
(* odd number of times, the flag flipped, and the panic (an access to      *)
(* screen or ram out of bounds, or an overflow).                           *)

(* A pixel write that sets the cell instead of toggling it. *)
FlipPixel_set(e, acc, index) ==
  [acc EXCEPT
     !.flipped = @ \/ (e.screen[index] # (index \in acc.toggled)),
     !.toggled = IF e.screen[index] THEN @ \ {index} ELSE @ \cup {index}]

(* A pixel write that reads the cell into flipped after toggling it. *)
FlipPixel_flag_after(e, acc, index) ==
  [acc EXCEPT
     !.flipped = @ \/ ~(e.screen[index] # (index \in acc.toggled)),
     !.toggled = IF index \in @ THEN @ \ {index} ELSE @ \cup {index}]

(* flipped |= screen[index]; screen[index] ^= true *)
FlipPixel(e, acc, index) ==
  [acc EXCEPT
     !.flipped = @ \/ (e.screen[index] # (index \in acc.toggled)),
     !.toggled = IF index \in @ THEN @ \ {index} ELSE @ \cup {index}]

(* The inner loop: the bits of one sprite row from x_line on. *)
RECURSIVE DrawBits(_, _, _, _, _, _, _)
DrawBits(e, pixels, x_coord, y_coord, y_line, x_line, acc) ==
  IF x_line >= 8 \/ acc.panic # "none" THEN acc
  ELSE IF BitAnd(pixels, Shr(128, x_line)) # 0
  THEN LET cell == PixelCell(x_coord, y_coord, x_line, y_line)
           index == cell[1] + SCREEN_WIDTH * cell[2]
       IN IF index >= SCREEN_WIDTH * SCREEN_HEIGHT
          THEN [acc EXCEPT !.panic = "index"]
          ELSE Force({DrawBits(e, pixels, x_coord, y_coord, y_line, x_line + 1, a) :
                 a \in {FlipPixel(e, acc, index)}})
  ELSE DrawBits(e, pixels, x_coord, y_coord, y_line, x_line + 1, acc)

(* The outer loop: the rows from y_line on; the address i_reg + y_line is  *)
(* a u16 sum and the read of ram is bounds-checked.                        *)
RECURSIVE DrawRows(_, _, _, _, _, _)
DrawRows(e, x_coord, y_coord, num_rows, y_line, acc) ==
  IF y_line >= num_rows \/ acc.panic # "none" THEN acc
  ELSE IF e.i_reg + y_line >= U16 /\ overflow_checks
  THEN [acc EXCEPT !.panic = "overflow"]
  ELSE LET addr == (e.i_reg + y_line) % U16
       IN IF addr >= RAM_SIZE THEN [acc EXCEPT !.panic = "index"]
          ELSE Force({DrawRows(e, x_coord, y_coord, num_rows, y_line + 1, a) :
                 a \in {DrawBits(e, e.ram[addr], x_coord, y_coord, y_line, 0, acc)}})

OpDXYN(e, digit2, digit3, digit4) ==
  LET origin == SpriteOrigin(e, digit2, digit3)
      num_rows == digit4
  IN Force({
       LET drawn == [e EXCEPT !.screen = [p \in d.toggled |-> ~@[p]] @@ @]
       IN IF d.panic # "none" THEN Panic(drawn, d.panic)
          ELSE SetV(drawn, 15, IF d.flipped THEN 1 ELSE 0) :
       d \in {DrawRows(e, origin[1], origin[2], num_rows, 0,
                       [toggled |-> {}, flipped |-> FALSE, panic |-> "none"])}})

(* EX9E / EXA1: keys[vx] is bounds-checked. *)
OpEX9E(e, x) ==
  LET vx == e.v_reg[x]
  IN IF vx >= NUM_KEYS THEN Panic(e, "index") ELSE SkipIf(e, e.keys[vx])

OpEXA1(e, x) ==
  LET vx == e.v_reg[x]
  IN IF vx >= NUM_KEYS THEN Panic(e, "index") ELSE SkipIf(e, ~e.keys[vx])

(* FX0A that releases the key it has read. *)
OpFX0A_consumes_key(e, x) ==
  LET down == {i \in 0..(NUM_KEYS - 1) : e.keys[i]}
      first == CHOOSE i \in down : \A j \in down : i <= j
  IN IF down # {}
     THEN [e EXCEPT !.v_reg = [@ EXCEPT ![x] = first],
                    !.keys = [@ EXCEPT ![first] = FALSE]]
     ELSE [e EXCEPT !.pc = e.pc - 2]

(* FX0A without the rewind of pc when no key is pressed. *)
OpFX0A_no_rewind(e, x) ==
  LET down == {i \in 0..(NUM_KEYS - 1) : e.keys[i]}
  IN IF down # {}
     THEN [e EXCEPT !.v_reg = [@ EXCEPT ![x] = CHOOSE i \in down : \A j \in down : i <= j]]
     ELSE e

(* FX0A: the first pressed key in ascending order goes to Vx; with none    *)
(* pressed pc -= 2.                                                        *)
OpFX0A(e, x) ==
  LET down == {i \in 0..(NUM_KEYS - 1) : e.keys[i]}
  IN IF down # {}
     THEN SetV(e, x, CHOOSE i \in down : \A j \in down : i <= j)
     ELSE [e EXCEPT !.pc = e.pc - 2]

(* FX29: i_reg *= 5 on a u16 (Vx is read into c and not used). *)
OpFX29(e, x) ==
  LET c == e.v_reg[x]
  IN IF e.i_reg * 5 >= U16 /\ overflow_checks THEN Panic(e, "overflow")
     ELSE [e EXCEPT !.i_reg = (e.i_reg * 5) % U16]

(* FX33 with the tens and the ones stored in each other's place. *)
OpFX33_tens_ones_swapped(e, x) ==
  LET vx == e.v_reg[x]
      hundreds == vx \div 100
      tens == (vx \div 10) % 10
      ones == vx % 10
  IN IF e.i_reg + 2 >= RAM_SIZE THEN Panic(e, "index")
     ELSE [e EXCEPT !.ram = [@ EXCEPT ![e.i_reg] = hundreds,
                                      ![e.i_reg + 1] = ones,
                                      ![e.i_reg + 2] = tens]]

(* FX33: the three stores are bounds-checked in turn. *)
OpFX33(e, x) ==
  LET vx == e.v_reg[x]
      hundreds == vx \div 100
      tens == (vx \div 10) % 10
      ones == vx % 10
  IN IF e.i_reg >= RAM_SIZE THEN Panic(e, "index")
     ELSE LET e1 == [e EXCEPT !.ram = [@ EXCEPT ![e.i_reg] = hundreds]]
          IN IF e.i_reg + 1 >= RAM_SIZE THEN Panic(e1, "index")
             ELSE LET e2 == [e1 EXCEPT !.ram = [@ EXCEPT ![e.i_reg + 1] = tens]]
                  IN IF e.i_reg + 2 >= RAM_SIZE THEN Panic(e2, "index")
                     ELSE [e2 EXCEPT !.ram = [@ EXCEPT ![e.i_reg + 2] = ones]]

(* The iterations of `for index in 0..=x` that run before i + index leaves *)
(* the ram.                                                                *)
Stored(e, x) ==
  IF e.i_reg >= RAM_SIZE THEN 0
  ELSE IF e.i_reg + x >= RAM_SIZE THEN RAM_SIZE - e.i_reg
  ELSE x + 1

(* FX55: for index in 0..=x, ram[i + index] = v_reg[index]; the store that *)
(* leaves the ram panics, the earlier ones are kept.                       *)
OpFX55(e, x) ==
  LET i == e.i_reg
      done == [e EXCEPT !.ram =
                 [a \in i..(i + Stored(e, x) - 1) |-> e.v_reg[a - i]] @@ @]
  IN IF Stored(e, x) < x + 1 THEN Panic(done, "index") ELSE done

(* FX65: for index in 0..=x, v_reg[index] = ram[i + index]. *)
OpFX65(e, x) ==
  LET i == e.i_reg
      done == [e EXCEPT !.v_reg = [r \in 0..(NUM_REGS - 1) |->
                 IF r < Stored(e, x) THEN e.ram[i + r] ELSE @[r]]]
  IN IF Stored(e, x) < x + 1 THEN Panic(done, "index") ELSE done

-----------------------------------------------------------------------------
(* execute: the four hex digits of op select the arm; rng is the byte that *)
(* random() returns, used by CXNN alone.                                   *)
execute(e, op, rng) ==
  LET digit1 == Shr(BitAnd(op, 61440), 12)
      digit2 == Shr(BitAnd(op, 3840), 8)
      digit3 == Shr(BitAnd(op, 240), 4)
      digit4 == BitAnd(op, 15)
      nnn == BitAnd(op, 4095)
      nn == BitAnd(op, 255)
      x == digit2
      y == digit3
  IN CASE digit1 = 0 /\ digit2 = 0 /\ digit3 = 0 /\ digit4 = 0 -> e
       [] digit1 = 0 /\ digit2 = 0 /\ digit3 = 14 /\ digit4 = 0 ->
            [e EXCEPT !.screen = [p \in 0..(SCREEN_WIDTH * SCREEN_HEIGHT - 1) |-> FALSE]]
       [] digit1 = 0 /\ digit2 = 0 /\ digit3 = 14 /\ digit4 = 14 ->
            LET r == pop(e)
            IN IF r[1].panic # "none" THEN r[1] ELSE [r[1] EXCEPT !.pc = r[2]]
       [] digit1 = 1 -> [e EXCEPT !.pc = nnn]
       [] digit1 = 2 ->
            LET pushed == push(e, e.pc)
            IN IF pushed.panic # "none" THEN pushed ELSE [pushed EXCEPT !.pc = nnn]
       [] digit1 = 3 -> SkipIf(e, e.v_reg[x] = nn)
       [] digit1 = 4 -> SkipIf(e, e.v_reg[x] # nn)
       [] digit1 = 5 /\ digit4 = 0 -> SkipIf(e, e.v_reg[x] = e.v_reg[y])
       [] digit1 = 6 -> SetV(e, x, nn)
       [] digit1 = 7 -> SetV(e, x, (e.v_reg[x] + nn) % U8)
       [] digit1 = 8 /\ digit4 = 0 -> SetV(e, x, e.v_reg[y])
       [] digit1 = 8 /\ digit4 = 1 -> SetV(e, x, BitOr(e.v_reg[x], e.v_reg[y]))
       [] digit1 = 8 /\ digit4 = 2 -> SetV(e, x, BitAnd(e.v_reg[x], e.v_reg[y]))
       [] digit1 = 8 /\ digit4 = 3 -> SetV(e, x, BitXor(e.v_reg[x], e.v_reg[y]))
       [] digit1 = 8 /\ digit4 = 4 -> Op8XY4(e, x, y)
       [] digit1 = 8 /\ digit4 = 5 -> Op8XY5(e, x, y)
       [] digit1 = 8 /\ digit4 = 6 -> Op8XY6(e, x)
       [] digit1 = 8 /\ digit4 = 7 -> Op8XY7(e, x, y)
       [] digit1 = 8 /\ digit4 = 14 -> Op8XYE(e, x)
       [] digit1 = 9 /\ digit4 = 0 -> SkipIf(e, e.v_reg[x] # e.v_reg[y])
       [] digit1 = 10 -> [e EXCEPT !.i_reg = nnn]
       [] digit1 = 11 -> [e EXCEPT !.pc = e.v_reg[0] + nnn]
       [] digit1 = 12 -> SetV(e, x, BitAnd(rng, nn))
       [] digit1 = 13 -> OpDXYN(e, digit2, digit3, digit4)
       [] digit1 = 14 /\ digit3 = 9 /\ digit4 = 14 -> OpEX9E(e, x)
       [] digit1 = 14 /\ digit3 = 10 /\ digit4 = 1 -> OpEXA1(e, x)
       [] digit1 = 15 /\ digit3 = 0 /\ digit4 = 7 -> SetV(e, x, e.dt)
       [] digit1 = 15 /\ digit3 = 0 /\ digit4 = 10 -> OpFX0A(e, x)
       [] digit1 = 15 /\ digit3 = 1 /\ digit4 = 5 -> [e EXCEPT !.dt = e.v_reg[x]]
       [] digit1 = 15 /\ digit3 = 1 /\ digit4 = 8 -> [e EXCEPT !.st = e.v_reg[x]]
       [] digit1 = 15 /\ digit3 = 1 /\ digit4 = 14 ->
            [e EXCEPT !.i_reg = (e.i_reg + e.v_reg[x]) % U16]
       [] digit1 = 15 /\ digit3 = 2 /\ digit4 = 9 -> OpFX29(e, x)
       [] digit1 = 15 /\ digit3 = 3 /\ digit4 = 3 -> OpFX33(e, x)
       [] digit1 = 15 /\ digit3 = 5 /\ digit4 = 5 -> OpFX55(e, x)
       [] digit1 = 15 /\ digit3 = 6 /\ digit4 = 5 -> OpFX65(e, x)
       [] OTHER -> Panic(e, "unimplemented")

(* tick: fetch, then execute. *)
tick(e, rng) ==
  Force({IF f[1].panic # "none" THEN f[1] ELSE execute(f[1], f[2], rng) :
         f \in {fetch(e)}})

(* The word the next tick fetches, or -1 when the fetch panics. *)
NextOp(e) == LET f == fetch(e) IN IF f[1].panic # "none" THEN -1 ELSE f[2]

(* random() is uniform over a u8; only the CXNN arm calls it. *)
RandomBytes(e) ==
  IF NextOp(e) # -1 /\ Shr(NextOp(e), 12) = 12 THEN 0..(U8 - 1) ELSE {0}

-----------------------------------------------------------------------------
(* ROM images: the bytes the front end reads from the file and passes to   *)
(* load.  An instruction word is stored big-endian, as fetch reads it.     *)

Word(op) == <<op \div 256, op % 256>>

RECURSIVE Asm(_)
Asm(ops) == IF ops = <<>> THEN <<>> ELSE Word(Head(ops)) \o Asm(Tail(ops))

Ins(digit1, digit2, digit3, digit4) ==
  digit1 * 4096 + digit2 * 256 + digit3 * 16 + digit4

InsXNN(digit1, x, nn) == digit1 * 4096 + x * 256 + nn

InsNNN(digit1, nnn) == digit1 * 4096 + nnn

(* Bounds of the model. *)
MaxTimerCalls == 7

Pad(data, len, fill) == data \o [i \in 1..(len - Len(data)) |-> fill]

-----------------------------------------------------------------------------
(* The calls of the API.  No call is made once the process has panicked.   *)
(* last records the latest call and its arguments (for tick_timers also    *)
(* the number k of tick_timers calls in a row and the timers d0, s0 before *)
(* the first of them), prev the machine before that call together with    *)
(* the call before it, and calls the number of 2NNN calls executed and not *)
(* yet returned from by 00EE; frames holds, for each of those calls, the    *)
(* address after the call instruction and sp before the call.              *)

NoCall ==
  [call |-> "new", op |-> -1, index |-> -1, pressed |-> FALSE, data |-> <<>>,
   k |-> 0, d0 |-> -1, s0 |-> -1]

Call(e, l) ==
  /\ panic = "none"
  /\ \E m \in {e} : Store(m)
  /\ last' = l
  /\ prev' = [m |-> Self, last |-> last]
  /\ UNCHANGED overflow_checks

Init ==
  /\ pc = new.pc
  /\ ram = new.ram
  /\ screen = new.screen
  /\ v_reg = new.v_reg
  /\ i_reg = new.i_reg
  /\ sp = new.sp
  /\ stack = new.stack
  /\ keys = new.keys
  /\ dt = new.dt
  /\ st = new.st
  /\ panic = new.panic
  /\ overflow_checks \in BOOLEAN
  /\ last = NoCall
  /\ prev = [m |-> new, last |-> NoCall]
  /\ calls = 0
  /\ frames = <<>>

Reset ==
  /\ Call(reset(Self), [NoCall EXCEPT !.call = "reset"])
  /\ calls' = 0
  /\ frames' = <<>>

Load(data) ==
  /\ Call(load(Self, data), [NoCall EXCEPT !.call = "load", !.data = data])
  /\ UNCHANGED <<calls, frames>>

IsCall(op) == op # -1 /\ Shr(op, 12) = 2

IsReturn(op) == op = 238

Tick ==
  \E rng \in RandomBytes(Self) :
    \E op \in {NextOp(Self)}, e \in {tick(Self, rng)} :
       /\ Call(e, [NoCall EXCEPT !.call = "tick", !.op = op])
       /\ calls' = IF e.panic # "none" THEN calls
                   ELSE IF IsCall(op) THEN calls + 1
                   ELSE IF IsReturn(op) THEN calls - 1
                   ELSE calls
       /\ frames' = IF e.panic # "none" THEN frames
                    ELSE IF IsCall(op) THEN Append(frames, [ret |-> pc + 2, sp |-> sp])
                    ELSE IF IsReturn(op) /\ frames # <<>>
                         THEN SubSeq(frames, 1, Len(frames) - 1)
                    ELSE frames

(* tick_timers; with track, the run of consecutive calls is counted in     *)
(* last and is at most MaxTimerCalls long.                                 *)
TickTimers(track) ==
  LET again == last.call = "tick_timers"
  IN /\ track /\ again => last.k < MaxTimerCalls
     /\ Call(tick_timers(Self),
             IF track
             THEN [NoCall EXCEPT !.call = "tick_timers",
                                 !.k = IF again THEN last.k + 1 ELSE 1,
                                 !.d0 = IF again THEN last.d0 ELSE dt,
                                 !.s0 = IF again THEN last.s0 ELSE st]
             ELSE [NoCall EXCEPT !.call = "tick_timers"])
     /\ UNCHANGED <<calls, frames>>

Keypress(index, pressed) ==
  /\ Call(keypress(Self, index, pressed),
          [NoCall EXCEPT !.call = "keypress", !.index = index, !.pressed = pressed])
  /\ UNCHANGED <<calls, frames>>

(* The host ticks a machine that holds a ROM: main loads one before its    *)
(* loop, and every ROM here starts with a nonzero byte.                    *)
RomLoaded == ram[START_ADDR] # 0

(* main: the ROM is loaded once, into the machine new() returned. *)
Boot(roms) ==
  /\ last.call = "new"
  /\ \E data \in roms : Load(data)

-----------------------------------------------------------------------------
(* The host of the library: any call of the API at any time.               *)

(* A ROM that touches every field: registers, font bytes (FX55 at I = 0),  *)
(* both timers, the display, the stack and the key wait.                   *)
RomAll ==
  Asm(<< \h6002, \hF055, \hF015, \hF018, \hD005, \h220E, \h120C, \hF00A, \h00EE >>)

Roms == {RomAll}

KeyIndices == {3}

Next ==
  \/ \E data \in Roms : Load(data)
  \/ RomLoaded /\ Tick
  \/ TickTimers(FALSE)
  \/ \E index \in KeyIndices, pressed \in BOOLEAN : Keypress(index, pressed)
  \/ Reset

Spec == Init /\ [][Next]_vars

-----------------------------------------------------------------------------
(* Loading: images around the capacity RAM_SIZE - START_ADDR, loaded into  *)
(* a new machine and then run.  An image starts with a jump to the last    *)
(* word of the ram (1FFE) and is filled with one byte.                     *)

MaxOversize == 2

Image(len, fill) ==
  [i \in 1..len |-> IF i = 1 THEN \h1F ELSE IF i = 2 THEN \hFE ELSE fill]

ImageLens ==
  {0, 1, 2} \cup ((RAM_SIZE - START_ADDR - 1)..(RAM_SIZE - START_ADDR + MaxOversize))

ImageFills == {\h00, \h60}

RomImages == {Image(len, fill) : len \in ImageLens, fill \in ImageFills}

NextLoad ==
  \/ Boot(RomImages)
  \/ Tick

SpecLoad == Init /\ [][NextLoad]_vars

-----------------------------------------------------------------------------
(* Arithmetic: programs that set Vx to a and Vy to b, execute one 8XY_     *)
(* instruction and stop in a jump to itself.                               *)

AluRegs == {0, 1, 15}

AluValues == {0, 1, 127, 128, 255}

AluOps == {4, 5}

AluRom(x, a, y, b, k) ==
  Asm(<< InsXNN(6, x, a), InsXNN(6, y, b), Ins(8, x, y, k), \h1206 >>)

AluRoms ==
  {AluRom(x, a, y, b, k) : x \in AluRegs, a \in AluValues, y \in AluRegs,
                           b \in AluValues, k \in AluOps}

NextAlu ==
  \/ Boot(AluRoms)
  \/ RomLoaded /\ Tick

SpecAlu == Init /\ [][NextAlu]_vars

-----------------------------------------------------------------------------
(* Drawing: programs that set Vx and Vy, draw three rows of the glyph "2"  *)
(* as a background when bg is set, then point I at a sprite and draw it    *)
(* twice with DXYN, and stop in a jump to itself.  The sprite is the glyph *)
(* "0" at address 0 or the zero bytes at 0x300.                            *)

DrawRegs == {0, 1, 15}

DrawCoords == {0, 28, 63}

DrawSprites == {\h000, \h300}

SpriteHeights == {0, 1, 5}

DrawRom(x, vx, y, vy, bg, i, n) ==
  Asm(<< InsXNN(6, x, vx), InsXNN(6, y, vy),
         \hA00A, IF bg THEN Ins(13, x, y, 3) ELSE \h0000,
         InsNNN(10, i), Ins(13, x, y, n), Ins(13, x, y, n), \h120E >>)

DrawRoms ==
  {DrawRom(x, vx, y, vy, bg, i, n) :
     x \in DrawRegs, vx \in DrawCoords, y \in DrawRegs, vy \in DrawCoords,
     bg \in BOOLEAN, i \in DrawSprites, n \in SpriteHeights}

NextDraw ==
  \/ Boot(DrawRoms)
  \/ RomLoaded /\ Tick

SpecDraw == Init /\ [][NextDraw]_vars

-----------------------------------------------------------------------------
(* Keys: a program that waits for a key into V3, then into VF, and starts  *)
(* over, while the host presses and releases keys between the ticks.       *)

WaitRom == Asm(<< \hF30A, \hFF0A, \h1200 >>)

WaitKeys == {0, 3, 5}

NextKey ==
  \/ Boot({WaitRom})
  \/ RomLoaded /\ Tick
  \/ \E index \in WaitKeys, pressed \in BOOLEAN : Keypress(index, pressed)

SpecKey == Init /\ [][NextKey]_vars

-----------------------------------------------------------------------------
(* Timers: a program that sets delay_timer to 5 and sound_timer to 3 and   *)
(* stops in a jump to itself, while the host calls tick_timers.            *)

TimerRom == Asm(<< \h6005, \hF015, \h6103, \hF118, \h1208 >>)

NextTimer ==
  \/ Boot({TimerRom})
  \/ RomLoaded /\ Tick
  \/ TickTimers(TRUE)

SpecTimer == Init /\ [][NextTimer]_vars

-----------------------------------------------------------------------------
(* The stack: a call to itself (2200), a return on the empty stack (00EE), *)
(* nested calls that return, and a recursion that goes STACK_SIZE calls    *)
(* deep (V0 counts them) and then returns from all of them.                *)

RomCallSelf == Asm(<< \h2200 >>)

RomReturn == Asm(<< \h00EE >>)

RomNested ==
  Asm(<< \h2206, \h2206, \h1204, \h220A, \h00EE, \h00EE >>)

RomDeep == Asm(<< \h7001, InsXNN(3, 0, STACK_SIZE + 1), \h2200, \h00EE >>)

StackRoms == {RomCallSelf, RomReturn, RomNested, RomDeep}

NextStack ==
  \/ Boot(StackRoms)
  \/ RomLoaded /\ Tick
  \/ Reset

SpecStack == Init /\ [][NextStack]_vars

-----------------------------------------------------------------------------
(* Properties.  The digits of an instruction word, and the latest call     *)
(* being a tick that executed the word op to its end.                      *)

Digit1(op) == op \div 4096

Digit2(op) == (op \div 256) % 16

Digit3(op) == (op \div 16) % 16

Digit4(op) == op % 16

Executed == last.call = "tick" /\ last.op # -1 /\ panic = "none"

FontIntact(mem) == \A a \in 0..(FONTSET_SIZE - 1) : mem[a] = FONTSET[a + 1]

(* C1: after any sequence of load, tick, tick_timers and keypress calls, a *)
(* call of reset() leaves the bytes [0, 80) of the ram equal to the font   *)
(* table that new() installs.                                              *)
C1_ResetRestoresFont ==
  last.call = "reset" =>
    /\ FontIntact(ram)
    /\ \A a \in 0..(FONTSET_SIZE - 1) : ram[a] = new.ram[a]

(* A reset of a machine whose font bytes a program had overwritten. *)
C1_Witness ==
  /\ last.call = "reset"
  /\ ~FontIntact(prev.m.ram)
  /\ FontIntact(ram)

(* C2: reset() returns every field to the state new() produces, keys       *)
(* included, from any reachable state.                                     *)
C2_ResetEqualsNew ==
  last.call = "reset" => Self = new

(* C3: load succeeds for every image of at most 3584 bytes and copies it   *)
(* verbatim to 0x200.., leaving the other bytes alone; for a longer image  *)
(* it fails with an error returned as a value, so the process goes on with *)
(* the machine as it was.                                                  *)
C3_LoadCopiesOrReturnsError ==
  last.call = "load" =>
    /\ panic = "none"
    /\ IF Len(last.data) <= RAM_SIZE - START_ADDR
       THEN \A a \in 0..(RAM_SIZE - 1) :
              ram[a] = IF a >= START_ADDR /\ a < START_ADDR + Len(last.data)
                       THEN last.data[a - START_ADDR + 1]
                       ELSE prev.m.ram[a]
       ELSE ram = prev.m.ram

(* The part of C3 that the code keeps: images that fit are copied. *)
C3_FittingImageCopied ==
  last.call = "load" /\ Len(last.data) <= RAM_SIZE - START_ADDR =>
    /\ panic = "none"
    /\ \A a \in 0..(RAM_SIZE - 1) :
         ram[a] = IF a >= START_ADDR /\ a < START_ADDR + Len(last.data)
                  THEN last.data[a - START_ADDR + 1]
                  ELSE prev.m.ram[a]

(* C4 as stated: 8xy4 sets VF = 1 iff Vx + Vy > 255, else 0, and leaves    *)
(* Vx = (Vx + Vy) mod 256, for all registers x and y.                      *)
C4_AddAllRegisters ==
  Executed /\ Digit1(last.op) = 8 /\ Digit4(last.op) = 4 =>
    LET x == Digit2(last.op)
        y == Digit3(last.op)
        a == prev.m.v_reg[x]
        b == prev.m.v_reg[y]
    IN /\ v_reg[15] = IF a + b > 255 THEN 1 ELSE 0
       /\ v_reg[x] = (a + b) % 256

(* C4 as amended: 8xy4 sets VF = 1 iff Vx + Vy > 255, else 0, for all x    *)
(* and y; Vx = (Vx + Vy) mod 256 afterwards when x is not 0xF (with        *)
(* x = 0xF the register holds the flag).                                   *)
C4_AddCarry ==
  Executed /\ Digit1(last.op) = 8 /\ Digit4(last.op) = 4 =>
    LET x == Digit2(last.op)
        y == Digit3(last.op)
        a == prev.m.v_reg[x]
        b == prev.m.v_reg[y]
    IN /\ v_reg[15] = IF a + b > 255 THEN 1 ELSE 0
       /\ x # 15 => v_reg[x] = (a + b) % 256

(* An 8xy4 that carried: the sum wrapped and VF is 1. *)
C4_Witness ==
  /\ Executed /\ Digit1(last.op) = 8 /\ Digit4(last.op) = 4
  /\ Digit2(last.op) # 15
  /\ prev.m.v_reg[Digit2(last.op)] + prev.m.v_reg[Digit3(last.op)] > 255
  /\ v_reg[15] = 1
  /\ v_reg[Digit2(last.op)] =
       prev.m.v_reg[Digit2(last.op)] + prev.m.v_reg[Digit3(last.op)] - 256

(* C5 as stated: 8xy5 sets VF = 0 iff Vx < Vy, else 1, and leaves          *)
(* Vx = (Vx - Vy) mod 256, for all registers x and y.                      *)
C5_SubAllRegisters ==
  Executed /\ Digit1(last.op) = 8 /\ Digit4(last.op) = 5 =>
    LET x == Digit2(last.op)
        y == Digit3(last.op)
        a == prev.m.v_reg[x]
        b == prev.m.v_reg[y]
    IN /\ v_reg[15] = IF a < b THEN 0 ELSE 1
       /\ v_reg[x] = (a - b) % 256

(* C5 as amended: 8xy5 sets VF = 0 iff Vx < Vy, else 1, for all x and y;   *)
(* Vx = (Vx - Vy) mod 256 afterwards when x is not 0xF (with x = 0xF the   *)
(* register holds the flag).                                               *)
C5_SubBorrow ==
  Executed /\ Digit1(last.op) = 8 /\ Digit4(last.op) = 5 =>
    LET x == Digit2(last.op)
        y == Digit3(last.op)
        a == prev.m.v_reg[x]
        b == prev.m.v_reg[y]
    IN /\ v_reg[15] = IF a < b THEN 0 ELSE 1
       /\ x # 15 => v_reg[x] = (a - b) % 256

(* An 8xy5 that borrowed: the difference wrapped and VF is 0. *)
C5_Witness ==
  /\ Executed /\ Digit1(last.op) = 8 /\ Digit4(last.op) = 5
  /\ Digit2(last.op) # 15
  /\ prev.m.v_reg[Digit2(last.op)] < prev.m.v_reg[Digit3(last.op)]
  /\ v_reg[15] = 0
  /\ v_reg[Digit2(last.op)] =
       prev.m.v_reg[Digit2(last.op)] - prev.m.v_reg[Digit3(last.op)] + 256

(* The sprite a DXYN reads in machine m: its rows, and whether any bit of  *)
(* it is set.                                                              *)
SpriteInRam(m, op) == m.i_reg + Digit4(op) <= RAM_SIZE

SpriteHasBit(m, op) ==
  \E r \in 0..(Digit4(op) - 1) : m.ram[m.i_reg + r] # 0

(* The latest call drew a sprite, and this step executes the same DXYN     *)
(* with the same origin registers, the same index_register and the same    *)
(* sprite bytes.                                                           *)
DrawsAgain ==
  /\ Executed /\ Digit1(last.op) = 13
  /\ last'.call = "tick" /\ last'.op = last.op /\ panic' = "none"
  /\ prev.m.v_reg[Digit2(last.op)] = v_reg[Digit2(last.op)]
  /\ prev.m.v_reg[Digit3(last.op)] = v_reg[Digit3(last.op)]
  /\ prev.m.i_reg = i_reg
  /\ \A r \in 0..(Digit4(last.op) - 1) : prev.m.ram[i_reg + r] = ram[i_reg + r]

ClaimedCells(m, op) ==
  {((m.v_reg[Digit2(op)] + c) % SCREEN_WIDTH)
     + SCREEN_WIDTH * ((m.v_reg[Digit3(op)] + r) % SCREEN_HEIGHT) :
     <<r, c>> \in {rc \in (0..(Digit4(op) - 1)) \X (0..7) :
                     BitAnd(m.ram[m.i_reg + rc[1]], Shr(128, rc[2])) # 0}}

(* C7: a DXYN whose sprite lies in the ram toggles exactly the cells       *)
(* x = (Vx + c) mod 64, y = (Vy + r) mod 32 of its set bits, with Vx and   *)
(* Vy the registers x and y of the opcode; every cell touched is inside    *)
(* the 64x32 grid, so the draw runs to its end.                            *)
C7_SpriteCells ==
  last.call = "tick" /\ last.op # -1 /\ Digit1(last.op) = 13
    /\ SpriteInRam(prev.m, last.op) =>
      /\ panic = "none"
      /\ \A p \in 0..(SCREEN_WIDTH * SCREEN_HEIGHT - 1) :
           (screen[p] # prev.m.screen[p]) <=> p \in ClaimedCells(prev.m, last.op)

(* The pressed keys of machine m. *)
Down(m) == {i \in 0..(NUM_KEYS - 1) : m.keys[i]}

(* C8: a tick of Fx0A with no key pressed leaves program_counter at its    *)
(* value before the tick and the registers unchanged, however often it is  *)
(* repeated; with a key pressed it sets Vx to the lowest pressed key index *)
(* and leaves program_counter at the following instruction.                *)
C8_WaitForKey ==
  Executed /\ Digit1(last.op) = 15 /\ Digit3(last.op) = 0 /\ Digit4(last.op) = 10 =>
    LET x == Digit2(last.op)
    IN IF Down(prev.m) = {}
       THEN pc = prev.m.pc /\ v_reg = prev.m.v_reg
       ELSE /\ v_reg[x] \in Down(prev.m)
            /\ \A i \in Down(prev.m) : v_reg[x] <= i
            /\ \A r \in 0..(NUM_REGS - 1) : r # x => v_reg[r] = prev.m.v_reg[r]
            /\ pc = prev.m.pc + 2

(* Key 3 is pressed after a tick that waited, and the next tick of F30A    *)
(* puts 3 in V3 and goes on.                                               *)
C8_Witness ==
  /\ Executed /\ last.op = 62218
  /\ prev.last.call = "keypress" /\ prev.last.index = 3 /\ prev.last.pressed
  /\ Down(prev.m) = {3, 5}
  /\ v_reg[3] = 3
  /\ pc = prev.m.pc + 2

(* The larger of two integers. *)
Max(a, b) == IF a >= b THEN a ELSE b

(* C9: a call of tick_timers decrements delay_timer and sound_timer by 1   *)
(* each when nonzero and leaves a zero timer at zero; after k calls in a   *)
(* row a timer that started at d holds max(0, d - k); no timer wraps.      *)
C9_TimersCountDown ==
  last.call = "tick_timers" =>
    /\ dt = (IF prev.m.dt > 0 THEN prev.m.dt - 1 ELSE 0)
    /\ st = (IF prev.m.st > 0 THEN prev.m.st - 1 ELSE 0)
    /\ dt = Max(0, last.d0 - last.k)
    /\ st = Max(0, last.s0 - last.k)
    /\ dt <= prev.m.dt /\ st <= prev.m.st

(* delay_timer started at 5 and has been ticked more than 5 times. *)
C9_Witness ==
  /\ last.call = "tick_timers"
  /\ last.d0 = 5 /\ last.s0 = 3
  /\ last.k > 5
  /\ dt = 0 /\ st = 0

(* C10: in every reachable state stack_pointer is in 0..16 and equals the  *)
(* number of calls (2nnn) not yet returned from (00EE).                    *)
C10_StackPointerInRange ==
  /\ sp \in 0..STACK_SIZE
  /\ sp = calls

-----------------------------------------------------------------------------
(* Failures: the programs of the stack (overflow by a call to itself,      *)
(* underflow by a return on the empty stack), an instruction word with no  *)
(* arm in execute (8008, after V0 and delay_timer were set), and four ways *)
(* for pc to leave the ram: a jump to 0xFFF, a jump to the NOP at 0xFFE    *)
(* and on past the end, a jump with offset V0 = 0xFF to 0xFFF + 0xFF, and  *)
(* a skip (3030 stored at 0xFFE by FX55) taken at the last word.           *)

RomUnimplemented == Asm(<< \h6005, \hF015, \h8008 >>)

RomJumpOut == Asm(<< \h1FFF >>)

RomJumpEdge == Asm(<< \h1FFE >>)

RomOffset == Asm(<< \h60FF, \hBFFF >>)

RomSkipOut == Asm(<< \h6030, \h6130, \hAFFE, \hF155, \h1FFE >>)

FailRoms ==
  StackRoms \cup {RomUnimplemented, RomJumpOut, RomJumpEdge, RomOffset, RomSkipOut}

NextFail ==
  \/ Boot(FailRoms)
  \/ RomLoaded /\ Tick
  \/ Reset

SpecFail == Init /\ [][NextFail]_vars

(* The instruction words that have an arm in execute. *)
InTable(op) ==
  LET d1 == Digit1(op)
      d2 == Digit2(op)
      d3 == Digit3(op)
      d4 == Digit4(op)
  IN \/ op \in {0, 224, 238}
     \/ d1 \in {1, 2, 3, 4, 6, 7, 10, 11, 12, 13}
     \/ d1 \in {5, 9} /\ d4 = 0
     \/ d1 = 8 /\ d4 \in {0, 1, 2, 3, 4, 5, 6, 7, 14}
     \/ d1 = 14 /\ <<d3, d4>> \in {<<9, 14>>, <<10, 1>>}
     \/ d1 = 15 /\ <<d3, d4>> \in {<<0, 7>>, <<0, 10>>, <<1, 5>>, <<1, 8>>, <<1, 14>>,
                                   <<2, 9>>, <<3, 3>>, <<5, 5>>, <<6, 5>>}

(* The tick of word op in machine m is one of the three failures of C11. *)
FailsInExecute(m, op) ==
  \/ IsCall(op) /\ m.sp = STACK_SIZE
  \/ IsReturn(op) /\ m.sp = 0
  \/ op # -1 /\ ~InTable(op)

(* C11: a tick that executes a call with 16 return addresses stacked, a    *)
(* return on the empty stack, or a word with no opcode-table entry reports *)
(* a failure value from tick() instead of crashing (the process goes on),  *)
(* and leaves registers, memory, display, stack, stack_pointer and timers  *)
(* as they were before the tick.                                           *)
C11_TypedFailureKeepsState ==
  last.call = "tick" /\ FailsInExecute(prev.m, last.op) =>
    /\ panic = "none"
    /\ v_reg = prev.m.v_reg /\ i_reg = prev.m.i_reg
    /\ ram = prev.m.ram /\ screen = prev.m.screen
    /\ stack = prev.m.stack /\ sp = prev.m.sp
    /\ dt = prev.m.dt /\ st = prev.m.st

(* What the code does in the three cases of C11: the process panics; the   *)
(* fields other than pc and sp are as before the tick.                     *)
C11_FailureIsPanic ==
  last.call = "tick" /\ FailsInExecute(prev.m, last.op) =>
    /\ panic # "none"
    /\ v_reg = prev.m.v_reg /\ i_reg = prev.m.i_reg
    /\ ram = prev.m.ram /\ screen = prev.m.screen
    /\ stack = prev.m.stack
    /\ dt = prev.m.dt /\ st = prev.m.st

(* The big-endian word at address a of memory mem. *)
WordAt(mem, a) == 256 * mem[a] + mem[a + 1]

(* C12: the fetch of a tick succeeds for every pc in 0..4094 and reads the *)
(* bytes at pc and pc + 1 as a big-endian word; for every pc above 4094 it *)
(* fails: nothing is fetched or executed, and pc does not wrap to 0.  A    *)
(* failure of execute after a fetch that succeeded leaves pc advanced.     *)
C12_FetchBounds ==
  last.call = "tick" =>
    IF prev.m.pc <= RAM_SIZE - 2
    THEN /\ last.op = WordAt(prev.m.ram, prev.m.pc)
         /\ panic # "none" => pc = prev.m.pc + 2
    ELSE /\ last.op = -1
         /\ panic = "index"
         /\ Self = Panic(prev.m, "index")

(* A taken skip at the last word of the ram left pc at 4098, and the fetch *)
(* there failed with pc still 4098.                                        *)
C12_Witness ==
  /\ last.call = "tick" /\ last.op = -1
  /\ prev.last.call = "tick" /\ Digit1(prev.last.op) = 3
  /\ prev.m.pc = RAM_SIZE + 2
  /\ pc = RAM_SIZE + 2
  /\ panic = "index"

(* C13: once a tick has failed the machine is halted and the failure is    *)
(* visible to the driving loop, which can call reset(); until then no tick *)
(* executes an instruction or changes the machine.                         *)
C13_HaltedUntilReset ==
  panic # "none" => ENABLED Reset

-----------------------------------------------------------------------------
(* C14: the bytes [0, 80) of the ram are written only by new() and         *)
(* reset(): no tick of any instruction, whatever index_register holds, no  *)
(* load, tick_timers or keypress changes any of them.                      *)
C14_FontWrittenOnlyByNewAndReset ==
  last.call \in {"tick", "load", "tick_timers", "keypress"} =>
    \A a \in 0..(FONTSET_SIZE - 1) : ram[a] = prev.m.ram[a]

-----------------------------------------------------------------------------
(* Font addresses: a program that sets Vx to a digit and index_register to *)
(* some address, executes FX29 and stops in a jump to itself.              *)

FontRegs == {0, 15}

FontDigits == 0..15

FontIndexes == {\h000, \h001, \h005, \h123, \hFFF}

FontRom(x, vx, i) ==
  Asm(<< InsXNN(6, x, vx), InsNNN(10, i), Ins(15, x, 2, 9), \h1206 >>)

FontRoms == {FontRom(x, vx, i) : x \in FontRegs, vx \in FontDigits, i \in FontIndexes}

NextFont ==
  \/ Boot(FontRoms)
  \/ RomLoaded /\ Tick

SpecFont == Init /\ [][NextFont]_vars

(* The latest call executed the word FX29 to its end. *)
ExecutedFX29 ==
  Executed /\ Digit1(last.op) = 15 /\ Digit3(last.op) = 2 /\ Digit4(last.op) = 9

(* C15: FX29 sets index_register to the address of the font glyph of the   *)
(* digit Vx, 0 + 5 * Vx, for every Vx in 0..15 and whatever index_register *)
(* held before.                                                            *)
C15_FontAddress ==
  ExecutedFX29 => i_reg = 5 * prev.m.v_reg[Digit2(last.op)]

(* What the code computes for FX29: five times the old index_register. *)
C15_IndexTimesFive ==
  ExecutedFX29 => i_reg = (5 * prev.m.i_reg) % U16 /\ v_reg = prev.m.v_reg

-----------------------------------------------------------------------------
-----------------------------------------------------------------------------
(* C17: a call 2nnn fetched at address a pushes a + 2, sets pc to nnn and  *)
(* raises stack_pointer by 1; a return 00EE sets pc to the address after   *)
(* its own call, the latest one not yet returned from, and restores        *)
(* stack_pointer to its value before that call.                            *)
C17_CallReturn ==
  [][last'.call = "tick" /\ panic' = "none" =>
       /\ IsCall(last'.op) =>
            /\ stack'[sp] = pc + 2
            /\ pc' = last'.op % 4096
            /\ sp' = sp + 1
       /\ IsReturn(last'.op) =>
            /\ frames # <<>>
            /\ pc' = frames[Len(frames)].ret
            /\ sp' = frames[Len(frames)].sp]_vars

(* The return from the inner of two nested calls made at different         *)
(* addresses: it resumes after the inner call, not after the outer one.    *)
C17_Witness ==
  /\ Executed /\ IsReturn(last.op)
  /\ prev.m.sp = 2 /\ sp = 1 /\ Len(frames) = 1
  /\ pc = prev.m.stack[1]
  /\ pc # prev.m.stack[0]

-----------------------------------------------------------------------------
(* Skips: a program that sets Vx and Vy, executes one conditional skip and *)
(* stops in a jump to itself at the next word or at the one after it,      *)
(* while the host presses and releases key 3.  The operand nn of 3XNN and  *)
(* 4XNN is the value given to Vy; 16 is a value that is no key index.      *)

SkipKinds == {"3XNN", "4XNN", "5XY0", "9XY0", "EX9E", "EXA1"}

SkipPairs == {<<0, 1>>, <<15, 0>>, <<1, 1>>}

SkipValues == {0, 3, 16}

SkipIns(kind, x, y, nn) ==
  CASE kind = "3XNN" -> InsXNN(3, x, nn)
    [] kind = "4XNN" -> InsXNN(4, x, nn)
    [] kind = "5XY0" -> Ins(5, x, y, 0)
    [] kind = "9XY0" -> Ins(9, x, y, 0)
    [] kind = "EX9E" -> Ins(14, x, 9, 14)
    [] kind = "EXA1" -> Ins(14, x, 10, 1)

SkipRom(kind, x, a, y, b) ==
  Asm(<< InsXNN(6, x, a), InsXNN(6, y, b), SkipIns(kind, x, y, b), \h1206, \h1208 >>)

SkipRoms ==
  {SkipRom(kind, xy[1], a, xy[2], b) :
     kind \in SkipKinds, xy \in SkipPairs, a \in SkipValues, b \in SkipValues}

SkipKeys == {3}

NextSkip ==
  \/ Boot(SkipRoms)
  \/ RomLoaded /\ Tick
  \/ \E index \in SkipKeys, pressed \in BOOLEAN : Keypress(index, pressed)

SpecSkip == Init /\ [][NextSkip]_vars

(* The word op is one of the six conditional skips. *)
IsSkip(op) ==
  \/ Digit1(op) \in {3, 4}
  \/ Digit1(op) \in {5, 9} /\ Digit4(op) = 0
  \/ Digit1(op) = 14 /\ <<Digit3(op), Digit4(op)>> \in {<<9, 14>>, <<10, 1>>}

(* The key of index Vx is pressed in machine m; no key has an index above  *)
(* 15.                                                                     *)
KeyDown(m, vx) == vx < NUM_KEYS /\ m.keys[vx]

(* The condition of the skip op in machine m, as C18 lists them. *)
SkipCondition(m, op) ==
  LET vx == m.v_reg[Digit2(op)]
      vy == m.v_reg[Digit3(op)]
      nn == op % 256
  IN CASE Digit1(op) = 3 -> vx = nn
       [] Digit1(op) = 4 -> vx # nn
       [] Digit1(op) = 5 -> vx = vy
       [] Digit1(op) = 9 -> vx # vy
       [] Digit1(op) = 14 /\ Digit3(op) = 9 -> KeyDown(m, vx)
       [] OTHER -> ~KeyDown(m, vx)

(* C18: each conditional skip fetched at address a leaves pc at a + 4 when *)
(* its condition holds and at a + 2 otherwise, and changes no other part   *)
(* of the machine.                                                         *)
C18_SkipOpcodes ==
  last.call = "tick" /\ last.op # -1 /\ IsSkip(last.op) =>
    Self = [prev.m EXCEPT
              !.pc = @ + (IF SkipCondition(prev.m, last.op) THEN 4 ELSE 2)]

(* The part of C18 that the code keeps: the skips that run to their end,   *)
(* which EX9E and EXA1 do when Vx is a key index.                          *)
C18_SkipsThatRun ==
  /\ Executed /\ IsSkip(last.op) =>
       Self = [prev.m EXCEPT
                 !.pc = @ + (IF SkipCondition(prev.m, last.op) THEN 4 ELSE 2)]
  /\ last.call = "tick" /\ last.op # -1 /\ IsSkip(last.op) /\ panic # "none" =>
       Digit1(last.op) = 14 /\ prev.m.v_reg[Digit2(last.op)] >= NUM_KEYS

-----------------------------------------------------------------------------
(* The keypad: a program that tests key 3 with EX9E and EXA1 and waits for *)
(* a key with FX0A, while the host presses and releases keys 3 and 5,      *)
(* ticks the timers, loads the program again and resets the machine.       *)

RomKeys == Asm(<< \h6003, \hE09E, \hE0A1, \hF10A, \h1200 >>)

KeypadKeys == {3, 5}

NextKeypad ==
  \/ Load(RomKeys)
  \/ RomLoaded /\ Tick
  \/ TickTimers(FALSE)
  \/ \E index \in KeypadKeys, pressed \in BOOLEAN : Keypress(index, pressed)
  \/ Reset

SpecKeypad == Init /\ [][NextKeypad]_vars

(* C19: the key states are changed by keypress() alone: no tick of any     *)
(* opcode, no tick_timers, no load (and no reset) changes a key state, and *)
(* keypress(i, p) changes key i and nothing else in the machine.           *)
C19_KeysOnlyByKeypress ==
  /\ last.call \in {"tick", "tick_timers", "load", "reset"} => keys = prev.m.keys
  /\ last.call = "keypress" =>
       Self = [prev.m EXCEPT !.keys = [@ EXCEPT ![last.index] = last.pressed]]

(* A tick of F10A that found keys 3 and 5 pressed: V1 = 3 and both keys    *)
(* are still pressed.                                                      *)
C19_Witness ==
  /\ Executed /\ last.op = 61706
  /\ prev.m.keys[3] /\ prev.m.keys[5]
  /\ keys[3] /\ keys[5]
  /\ v_reg[1] = 3

-----------------------------------------------------------------------------
(* Decimal digits: a program that sets Vx to any byte and index_register   *)
(* to an address, executes FX33 and stops in a jump to itself.  0xFFD is   *)
(* the last address whose three bytes are in the ram.                      *)

BcdRegs == {0, 15}

BcdValues == 0..(U8 - 1)

BcdIndexes == {\h300, \hFFD, \hFFE}

BcdRom(x, vx, i) ==
  Asm(<< InsXNN(6, x, vx), InsNNN(10, i), Ins(15, x, 3, 3), \h1206 >>)

BcdRoms == {BcdRom(x, vx, i) : x \in BcdRegs, vx \in BcdValues, i \in BcdIndexes}

NextBcd ==
  \/ Boot(BcdRoms)
  \/ RomLoaded /\ Tick

SpecBcd == Init /\ [][NextBcd]_vars

(* C20: FX33 that ran to its end has stored at index_register, +1 and +2   *)
(* the hundreds, tens and ones digits h, t, o of Vx, each in 0..9 with     *)
(* 100 h + 10 t + o = Vx, and has changed no other byte of the ram, no     *)
(* register and not index_register.                                        *)
C20_Bcd ==
  Executed /\ Digit1(last.op) = 15 /\ Digit3(last.op) = 3 /\ Digit4(last.op) = 3 =>
    LET vx == prev.m.v_reg[Digit2(last.op)]
        i == prev.m.i_reg
        h == ram[i]
        t == ram[i + 1]
        o == ram[i + 2]
    IN /\ h \in 0..9 /\ t \in 0..9 /\ o \in 0..9
       /\ 100 * h + 10 * t + o = vx
       /\ Self = [prev.m EXCEPT !.pc = @ + 2,
                                !.ram = [@ EXCEPT ![i] = h, ![i + 1] = t, ![i + 2] = o]]

(* VF = 209 stored at the last three bytes of the ram as 2, 0, 9. *)
C20_Witness ==
  /\ Executed /\ last.op = 65331
  /\ prev.m.v_reg[15] = 209 /\ prev.m.i_reg = RAM_SIZE - 3
  /\ ram[RAM_SIZE - 3] = 2 /\ ram[RAM_SIZE - 2] = 0 /\ ram[RAM_SIZE - 1] = 9

-----------------------------------------------------------------------------
(* Flags: the programs of the arithmetic, with each of the five opcodes    *)
(* that write a flag to VF.                                                *)

FlagOps == {4, 5, 6, 7, 14}

FlagRoms ==
  {AluRom(x, a, y, b, k) : x \in AluRegs, a \in AluValues, y \in AluRegs,
                           b \in AluValues, k \in FlagOps}

NextFlag ==
  \/ Boot(FlagRoms)
  \/ RomLoaded /\ Tick

SpecFlag == Init /\ [][NextFlag]_vars

(* The result and the flag of the opcode 8xyk for the operand values a of  *)
(* Vx and b of Vy.                                                         *)
FlagResult(k, a, b) ==
  CASE k = 4 -> (a + b) % U8
    [] k = 5 -> (a - b) % U8
    [] k = 6 -> a \div 2
    [] k = 7 -> (b - a) % U8
    [] k = 14 -> (2 * a) % U8

FlagValue(k, a, b) ==
  CASE k = 4 -> IF a + b > 255 THEN 1 ELSE 0
    [] k = 5 -> IF a < b THEN 0 ELSE 1
    [] k = 6 -> a % 2
    [] k = 7 -> IF b < a THEN 0 ELSE 1
    [] k = 14 -> a \div 128

(* C21: in 8xy4, 8xy5, 8xy6, 8xy7 and 8xyE the result is written to Vx     *)
(* first and the flag to VF last: register 15 ends as the flag, also when  *)
(* x = 0xF (the result is then discarded), every other Vx holds the        *)
(* result, the flag is computed from the operand values before the tick,   *)
(* and VF is 0 or 1 after the instruction.                                 *)
C21_FlagWrittenLast ==
  Executed /\ Digit1(last.op) = 8 /\ Digit4(last.op) \in FlagOps =>
    LET x == Digit2(last.op)
        k == Digit4(last.op)
        a == prev.m.v_reg[x]
        b == prev.m.v_reg[Digit3(last.op)]
    IN /\ v_reg[15] = FlagValue(k, a, b)
       /\ v_reg[15] \in {0, 1}
       /\ v_reg = [[prev.m.v_reg EXCEPT ![x] = FlagResult(k, a, b)]
                     EXCEPT ![15] = FlagValue(k, a, b)]

(* 8FFE with VF = 255: the result 254 is discarded and VF holds the flag 1.*)
C21_Witness ==
  /\ Executed /\ Digit1(last.op) = 8 /\ Digit4(last.op) = 14
  /\ Digit2(last.op) = 15
  /\ prev.m.v_reg[15] = 255
  /\ FlagResult(14, 255, 255) = 254
  /\ v_reg[15] = 1

====
